---- MODULE Spec2Model ----
(***************************************************************************)
(* Model of apps/ops/src/aws/apprunner.ts: ensureAppRunner and the flows   *)
(* it dispatches to (create, update, delete), the polling waiter, the      *)
(* autoscaling-revision reclaim and the update plan, run against a model   *)
(* of the App Runner provider (services, autoscaling revisions, tags).     *)
(***************************************************************************)
EXTENDS Integers, Sequences, FiniteSets, TLC

VARIABLES
    svc,      \* provider: service arn -> service record (status "NONE" = no such service)
    rev,      \* provider: autoscaling revision id -> revision record
    config,   \* configuration store: the secret bindings getConfig returns
    now,      \* the wall clock new Date() reads
    urlSink,  \* what setAppRunnerUrl last received
    opt,      \* invocation -> its EnsureAppRunnerOptions
    loc,      \* invocation -> the local variables of ensureAppRunner and its callees
    trace     \* invocation -> the mutating remote calls and flow events of its current run

vars == <<svc, rev, config, now, urlSink, opt, loc, trace>>

(***************************************************************************)
(* Bounds of the model.                                                    *)
(***************************************************************************)
\* successive invocations of ensureAppRunner by one caller
MaxRuns == 2
\* autoscaling revisions existing before the first run
InitRevs == 4
\* summaries per page of ListAutoScalingConfigurations
RevPageSize == 2
\* summaries per page of ListServices
SvcPageSize == 1

\* the invocations of ensureAppRunner
Procs == {1, 2}

\* services existing before the first run
InitSvcs == 2
Arns == 1..(InitSvcs + MaxRuns * Cardinality(Procs))
RevIds == 1..(InitRevs + MaxRuns * Cardinality(Procs))

(***************************************************************************)
(* Program constants.                                                      *)
(***************************************************************************)
MaxWaitTimeForAppRunnerCreate == 60 * 15
MaxWaitTimeForAppRunnerUpdate == 60 * 15

Statuses ==
    {"CREATING", "RUNNING", "OPERATION_IN_PROGRESS", "CREATE_FAILED",
     "UPDATE_FAILED", "DELETING", "DELETED", "PAUSED"}

Keys == {"A", "B", "LEGACY_KEY"}
Vals == {"v1", "v2"}

\* a binding map: a function from some of the keys to values
Bindings(K) == UNION {[S -> Vals] : S \in SUBSET K}
NoBindings == [k \in {} |-> "v1"]

(***************************************************************************)
(* Settings records.                                                       *)
(***************************************************************************)
AutoScaling(min, max, conc) ==
    [MinSize |-> min, MaxSize |-> max, MaxConcurrency |-> conc]

HealthCheck(path, interval, timeout, healthy, unhealthy) ==
    [Path |-> path, Interval |-> interval, Timeout |-> timeout,
     HealthyThreshold |-> healthy, UnhealthyThreshold |-> unhealthy]

Instance(cpu, memory) == [Cpu |-> cpu, Memory |-> memory]

\* getAutoScalingSettings(options)
getAutoScalingSettings(options) ==
    [MaxConcurrency |-> options.autoScaling.maxConcurrency,
     MaxSize |-> options.autoScaling.maxSize,
     MinSize |-> options.autoScaling.minSize]

\* getHealthCheckSettings(options)
getHealthCheckSettings(options) ==
    [Protocol |-> "HTTP",
     Path |-> options.healthCheck.path,
     Interval |-> options.healthCheck.interval,
     Timeout |-> options.healthCheck.timeout,
     HealthyThreshold |-> options.healthCheck.healthyThreshold,
     UnhealthyThreshold |-> options.healthCheck.unhealthyThreshold]

\* getEcrRepositoryArn(region, repositoryName): the registry base url
getEcrRepositoryArn(region, name) == <<"ecr", region, name>>

\* `${ecrRepositoryUrl}:${options.imageTag}`
ImageIdentifier(ecrRepositoryUrl, imageTag) ==
    ecrRepositoryUrl \o <<":">> \o imageTag

\* getTags(region, deployment, {LetsGoComponent: component})
getTags(options) == [dep |-> options.deployment, comp |-> options.component]

(***************************************************************************)
(* The update plan (updateAppRunnerService, "Create new                    *)
(* AutoScalingConfiguration if needed" to "Update plan").                  *)
(***************************************************************************)
\* mutant: MaxSize is not compared
autoScalingNeedsUpdate_NoMaxSize(current, desired) ==
    \E setting \in {"MaxConcurrency", "MinSize"} :
        current[setting] # desired[setting]

\* ["MaxConcurrency","MinSize","MaxSize"].find(current[s] !== desired[s]) !== undefined
autoScalingNeedsUpdate(current, desired) ==
    \E setting \in {"MaxConcurrency", "MinSize", "MaxSize"} :
        current[setting] # desired[setting]

\* ["Path","Interval","Timeout","HealthyThreshold","UnhealthyThreshold"].find(...) !== undefined
healthCheckNeedsUpdate(current, desired) ==
    \E setting \in {"Path", "Interval", "Timeout", "HealthyThreshold",
                    "UnhealthyThreshold"} :
        current[setting] # desired[setting]

instanceConfigurationNeedsUpdate(existingService, options) ==
    \/ existingService.inst.Cpu # options.appRunnerCpu
    \/ existingService.inst.Memory # options.appRunnerMemory

imageNeedsUpdate(existingService, options) ==
    existingService.image #
        ImageIdentifier(getEcrRepositoryArn(options.region, options.ecrRepositoryName),
                        options.imageTag)

\* mutant: ignoreConfigKeys is applied to the desired keys only
configNeedsUpdate_OneSidedIgnore(currentConfigKeys, desiredConfigKeys, ignoreConfigKeys) ==
    \/ \E key \in desiredConfigKeys :
           key \notin currentConfigKeys /\ key \notin ignoreConfigKeys
    \/ \E key \in currentConfigKeys : key \notin desiredConfigKeys

\* desiredConfigKeys.find(...) !== undefined || currentConfigKeys.find(...) !== undefined
configNeedsUpdate(currentConfigKeys, desiredConfigKeys, ignoreConfigKeys) ==
    \/ \E key \in desiredConfigKeys :
           key \notin currentConfigKeys /\ key \notin ignoreConfigKeys
    \/ \E key \in currentConfigKeys :
           key \notin desiredConfigKeys /\ key \notin ignoreConfigKeys

\* the updatePlan array; newArn is newAutoScalingConfigurationArn (0 = undefined)
updatePlan(newArn, hc, inst, img, cfg) ==
    (IF newArn # 0 THEN <<"autoscaling settings">> ELSE <<>>)
    \o (IF hc THEN <<"healthcheck settings">> ELSE <<>>)
    \o (IF inst THEN <<"instance configuration">> ELSE <<>>)
    \o (IF img THEN <<"image">> ELSE <<>>)
    \o (IF cfg THEN <<"variables">> ELSE <<>>)

(***************************************************************************)
(* Requests.  An optional member of a command is a set with at most one    *)
(* element: {} when the spread leaves it out.                              *)
(***************************************************************************)
The(S) == CHOOSE x \in S : TRUE

\* mutant: the request carries the fingerprint but no secrets
UpdateImageConfiguration_NoSecrets(cfg, desiredConfig, updatedAt) ==
    IF cfg
    THEN {[secrets |-> NoBindings, LETSGO_UPDATED_AT |-> updatedAt]}
    ELSE {}

\* the ImageConfiguration member of UpdateServiceCommand
UpdateImageConfiguration(cfg, desiredConfig, updatedAt) ==
    IF cfg
    THEN {[secrets |-> desiredConfig, LETSGO_UPDATED_AT |-> updatedAt]}
    ELSE {}

\* new UpdateServiceCommand({...})
UpdateServiceCommand(options, newArn, hc, inst, img, cfg, desiredConfig, updatedAt) ==
    [asc |-> IF newArn # 0 THEN {newArn} ELSE {},
     hc |-> IF hc THEN {getHealthCheckSettings(options)} ELSE {},
     inst |-> IF inst
              THEN {Instance(options.appRunnerCpu, options.appRunnerMemory)}
              ELSE {},
     src |-> IF img \/ cfg
             THEN {[image |-> ImageIdentifier(
                                  getEcrRepositoryArn(options.region,
                                                      options.ecrRepositoryName),
                                  options.imageTag),
                    imgCfg |-> UpdateImageConfiguration(cfg, desiredConfig,
                                                        updatedAt)]}
             ELSE {}]

NoRequest == [asc |-> {}, hc |-> {}, inst |-> {}, src |-> {}]

(***************************************************************************)
(* The provider's records.                                                 *)
(***************************************************************************)
\* a Service as DescribeService returns it; status "NONE" stands for
\* ResourceNotFoundException.  op/req: the operation in progress.
NoService ==
    [status |-> "NONE", op |-> "none", name |-> "",
     tags |-> [dep |-> "", comp |-> ""],
     asc |-> 0, hc |-> getHealthCheckSettings(
                           [healthCheck |-> [path |-> "/", interval |-> 0,
                                             timeout |-> 0, healthyThreshold |-> 0,
                                             unhealthyThreshold |-> 0]]),
     inst |-> Instance("", ""), image |-> <<>>, secrets |-> NoBindings,
     LETSGO_UPDATED_AT |-> -1, req |-> NoRequest]

\* an AutoScalingConfiguration revision; status "none" = no such revision
NoRevision == [status |-> "none", name |-> "", settings |-> AutoScaling(0, 0, 0)]

\* HasAssociatedService of a revision summary: some live service uses the
\* revision, or has an update in progress that refers to it
HasAssociatedService(services, r) ==
    \E a \in Arns :
        /\ services[a].status \notin {"NONE", "DELETED"}
        /\ \/ services[a].asc = r
           \/ /\ services[a].status = "OPERATION_IN_PROGRESS"
              /\ r \in services[a].req.asc

\* the service an UpdateService request leaves when the provider applies it as
\* submitted; a SourceConfiguration without ImageConfiguration either keeps
\* the image configuration (keep) or replaces it by none
ApplyUpdate(s, req, keep) ==
    [s EXCEPT
       !.status = "RUNNING",
       !.op = "none",
       !.req = NoRequest,
       !.asc = IF req.asc = {} THEN @ ELSE The(req.asc),
       !.hc = IF req.hc = {} THEN @ ELSE The(req.hc),
       !.inst = IF req.inst = {} THEN @ ELSE The(req.inst),
       !.image = IF req.src = {} THEN @ ELSE The(req.src).image,
       !.secrets = IF req.src = {} THEN @
                   ELSE IF The(req.src).imgCfg # {}
                        THEN The(The(req.src).imgCfg).secrets
                        ELSE IF keep THEN @ ELSE NoBindings,
       !.LETSGO_UPDATED_AT =
                   IF req.src = {} THEN @
                   ELSE IF The(req.src).imgCfg # {}
                        THEN The(The(req.src).imgCfg).LETSGO_UPDATED_AT
                        ELSE IF keep THEN @ ELSE -1]

\* the outcomes the provider can give the operation in progress on s
CompletionsOf(s) ==
    CASE s.op = "create" -> {"RUNNING", "CREATE_FAILED"}
      [] s.op = "update" -> {"applied", "applied-reset", "rolled-back", "UPDATE_FAILED"}
      [] s.op = "delete" -> {"DELETED"}
      [] OTHER -> {}

Completed(s, how) ==
    CASE how \in {"applied", "applied-reset"} -> ApplyUpdate(s, s.req, how = "applied")
      [] how = "rolled-back" ->
            [s EXCEPT !.status = "RUNNING", !.op = "none", !.req = NoRequest]
      [] OTHER -> [s EXCEPT !.status = how, !.op = "none", !.req = NoRequest]

\* the provider finishes the operation in progress on service a
ProviderComplete(a) ==
    /\ svc[a].status = "OPERATION_IN_PROGRESS"
    /\ \E how \in CompletionsOf(svc[a]) :
           svc' = [svc EXCEPT ![a] = Completed(svc[a], how)]
    /\ UNCHANGED <<rev, config, now, urlSink, opt, loc, trace>>

\* the provider finishes the operation in progress on service a as asked
ProviderSucceeds(a) ==
    /\ svc[a].status = "OPERATION_IN_PROGRESS"
    /\ \E how \in CompletionsOf(svc[a]) \cap {"RUNNING", "applied", "applied-reset",
                                               "DELETED"} :
           svc' = [svc EXCEPT ![a] = Completed(svc[a], how)]
    /\ UNCHANGED <<rev, config, now, urlSink, opt, loc, trace>>

\* the provider reports another status for service a: an operation started or
\* ended by someone else (a pause, a resume, a delete, a failed deployment)
ProviderReports(a) ==
    /\ svc[a].status \notin {"NONE", "DELETED"}
    /\ \E status \in Statuses \ {svc[a].status} :
           svc' = [svc EXCEPT ![a].status = status,
                              ![a].op = IF status = "OPERATION_IN_PROGRESS"
                                        THEN @ ELSE "none",
                              ![a].req = IF status = "OPERATION_IN_PROGRESS"
                                         THEN @ ELSE NoRequest]
    /\ UNCHANGED <<rev, config, now, urlSink, opt, loc, trace>>

\* the provider refuses a CreateService whose ServiceName a service that is
\* not deleted already has, or whose autoscaling revision is not active
CreateRefused(services, revisions, name, autoScalingArn) ==
    \/ \E a \in Arns : /\ services[a].status \notin {"NONE", "DELETED"}
                       /\ services[a].name = name
    \/ revisions[autoScalingArn].status # "active"

\* no two services that are not deleted have the same name
UniqueNames(services) ==
    \A a, b \in Arns :
        (/\ a # b
         /\ services[a].status \notin {"NONE", "DELETED"}
         /\ services[b].status \notin {"NONE", "DELETED"}) =>
            services[a].name # services[b].name

\* a deleted or failed-to-create service eventually leaves the provider's listing
ProviderRemove(a) ==
    /\ svc[a].status \in {"DELETED", "CREATE_FAILED"}
    /\ svc' = [svc EXCEPT ![a] = NoService]
    /\ UNCHANGED <<rev, config, now, urlSink, opt, loc, trace>>

(***************************************************************************)
(* Discovery: listLetsGoAppRunnerServices and getOneLetsGoAppRunnerService *)
(***************************************************************************)
\* the tag test of listLetsGoAppRunnerServices ("" is a missing tag or argument)
TagsMatch(tags, deployment, component) ==
    /\ tags.dep # ""
    /\ tags.comp # ""
    /\ (deployment = "" \/ deployment = tags.dep)
    /\ (component = "" \/ component = tags.comp)

\* one page of ListServices: the arns of the page, in order
ServicePage(services, token) ==
    SelectSeq([i \in 1..SvcPageSize |-> (token - 1) * SvcPageSize + i],
              LAMBDA a : a \in Arns /\ services[a].status # "NONE")

\* result.NextToken of that page
ServiceNextToken(services, token) ==
    \E a \in Arns : a > token * SvcPageSize /\ services[a].status # "NONE"

RECURSIVE ListFrom(_, _, _, _)
ListFrom(services, token, deployment, component) ==
    LET matching == SelectSeq(ServicePage(services, token),
                              LAMBDA a : TagsMatch(services[a].tags, deployment,
                                                   component))
    IN  IF ServiceNextToken(services, token)
        THEN matching \o ListFrom(services, token + 1, deployment, component)
        ELSE matching

\* the arns of the summaries listLetsGoAppRunnerServices returns
listLetsGoAppRunnerServices(services, deployment, component) ==
    ListFrom(services, 1, deployment, component)

\* mutant: more than one match is resolved by taking the first
getOneLetsGoAppRunnerService_PickFirst(existingServices) ==
    IF Len(existingServices) = 0 THEN 0 ELSE existingServices[1]

\* getOneLetsGoAppRunnerService: -1 for process.exit(1), or the arn of the
\* summary it returns (0 = undefined)
getOneLetsGoAppRunnerService(existingServices) ==
    IF Len(existingServices) > 1 THEN -1
    ELSE IF Len(existingServices) = 0 THEN 0
    ELSE existingServices[1]

(***************************************************************************)
(* ensureAppRunner's decisions.                                            *)
(***************************************************************************)
\* mutant: the OPERATION_IN_PROGRESS test is missing
AfterDiscovery_NoBusy(status) ==
    IF status = "CREATE_FAILED" THEN "deleteService"
    ELSE IF status = "" THEN "dispatch"
    ELSE "describeService"

\* what follows discovery of a summary with this status ("" = no summary)
AfterDiscovery(status) ==
    IF status = "OPERATION_IN_PROGRESS" THEN "exit"
    ELSE IF status = "CREATE_FAILED" THEN "deleteService"
    ELSE IF status = "" THEN "dispatch"
    ELSE "describeService"

\* mutant: the DELETED test is missing
Dispatch_IgnoreDeleted(hasExistingService, summaryStatus) ==
    IF ~hasExistingService THEN "create" ELSE "update"

\* !existingService || existingServiceSummary?.Status === "DELETED"
Dispatch(hasExistingService, summaryStatus) ==
    IF ~hasExistingService \/ summaryStatus = "DELETED" THEN "create" ELSE "update"

(***************************************************************************)
(* waitForAppRunnerService's decisions.                                    *)
(***************************************************************************)
\* mutant: a reachDeleted wait takes every status but in progress for deleted
PollStatus_AnyIsDeleted(isDeleting, status) ==
    IF isDeleting
    THEN IF status # "OPERATION_IN_PROGRESS" THEN "return-undefined"
         ELSE "continue"
    ELSE IF status = "RUNNING" THEN "return-service"
         ELSE IF status # "OPERATION_IN_PROGRESS" THEN "exit"
         ELSE "continue"

\* mutant: a reachRunning wait polls again on every status but RUNNING
PollStatus_RetryFailed(isDeleting, status) ==
    IF isDeleting
    THEN IF status = "DELETED" THEN "return-undefined"
         ELSE IF status # "OPERATION_IN_PROGRESS" THEN "exit"
         ELSE "continue"
    ELSE IF status = "RUNNING" THEN "return-service"
         ELSE "continue"

\* what one poll that observed status does: "return-undefined",
\* "return-service", "exit" or "continue"
PollStatus(isDeleting, status) ==
    IF isDeleting
    THEN IF status = "DELETED" THEN "return-undefined"
         ELSE IF status # "OPERATION_IN_PROGRESS" THEN "exit"
         ELSE "continue"
    ELSE IF status = "RUNNING" THEN "return-service"
         ELSE IF status # "OPERATION_IN_PROGRESS" THEN "exit"
         ELSE "continue"

\* mutant: the two results of the timeout are exchanged
TimeoutResult_Exchanged(isDeleting) ==
    IF isDeleting THEN "return-undefined" ELSE "return-service"

\* return isDeleting ? result.Service : undefined
TimeoutResult(isDeleting) ==
    IF isDeleting THEN "return-service" ELSE "return-undefined"

\* the delay chosen at a tick
NextDelay(clock, delay) ==
    IF clock > 60 THEN 10
    ELSE IF clock > 20 THEN 5
    ELSE IF clock > 5 THEN 2
    ELSE delay

(***************************************************************************)
(* deleteUnusedAutoScalingConfigurations' listing and test.                *)
(***************************************************************************)
\* one page of ListAutoScalingConfigurations for a name: revision ids
RevisionPage(revisions, name, token) ==
    {r \in RevIds : /\ (token - 1) * RevPageSize < r
                    /\ r <= token * RevPageSize
                    /\ revisions[r].status # "none"
                    /\ revisions[r].name = name}

\* listResult.NextToken of that page
RevisionNextToken(revisions, name, token) ==
    \E r \in RevIds : /\ r > token * RevPageSize
                      /\ revisions[r].status # "none"
                      /\ revisions[r].name = name

\* mutant: the association with a service is not looked at
Unused_AnyActive(hasAssociatedService, status) == status = "active"

\* !revision.HasAssociatedService && revision.Status === "active"
Unused(hasAssociatedService, status) ==
    ~hasAssociatedService /\ status = "active"

\* mutant: the loop stops after the first page
ReclaimDone_FirstPage(nextToken) == TRUE

\* if (!listResult.NextToken) break
ReclaimDone(nextToken) == ~nextToken

RECURSIVE Ascending(_)
\* the elements of a finite set of integers in ascending order
Ascending(S) ==
    IF S = {} THEN <<>>
    ELSE LET m == CHOOSE x \in S : \A y \in S : x <= y
         IN  <<m>> \o Ascending(S \ {m})

(***************************************************************************)
(* The local state of one invocation of ensureAppRunner.                   *)
(***************************************************************************)
Event(call, arg) == [call |-> call, arg |-> arg]

Events(call, args) == [i \in 1..Len(args) |-> Event(call, args[i])]

NoNeeds == [hc |-> FALSE, inst |-> FALSE, img |-> FALSE, cfg |-> FALSE]

Locals(pc, run) ==
    [pc |-> pc, run |-> run,
     found |-> 0,                \* existingServices.length
     discoveredArn |-> 0,        \* the summary discovery returned (0 = none)
     discoveredStatus |-> "",
     summaryArn |-> 0,           \* existingServiceSummary (0 = undefined)
     summaryStatus |-> "",
     hasExisting |-> FALSE,      \* existingService is defined
     existingService |-> NoService,
     flow |-> "none",
     token |-> 1,                \* listCommandInput.NextToken
     reported |-> {},            \* the revisions a listing page reported unused
     autoScalingNeedsUpdate |-> FALSE,
     newArn |-> 0,               \* newAutoScalingConfigurationArn (0 = undefined)
     needs |-> NoNeeds,
     desiredConfig |-> NoBindings,
     plan |-> <<>>,              \* updatePlan
     updatedAt |-> 0,
     createdArn |-> 0,           \* createServiceResult.Service.ServiceArn
     waitArn |-> 0, waitFor |-> "none", isDeleting |-> FALSE,
     maxWait |-> 0, clock |-> 0, delay |-> 1, polls |-> 0,
     returned |-> FALSE,         \* the wait returned a Service (not undefined)
     service |-> NoService,      \* the Service the wait returned
     outcome |-> "none",
     followUp |-> 0,             \* the service whose URL the timeout message gives
     terminated |-> 0,           \* how often the caller's invocations were killed
     prevOutcome |-> "none", prevFlow |-> "none"]

\* the run ends: process.exit(1), an uncaught exception, or a normal return
Finish(l, outcome) == [l EXCEPT !.pc = "done", !.outcome = outcome]

\* createAppRunnerService / updateAppRunnerService is called
EnterFlow(l, flow) == [l EXCEPT !.flow = flow, !.pc = "reclaim", !.token = 1]

FlowEvent(flow) == Event(IF flow = "create" THEN "create-flow" ELSE "update-flow", 0)

\* waitForAppRunnerService is called
EnterWait(l, arn, for, maxWait, isDeleting) ==
    [l EXCEPT !.pc = "wait", !.waitArn = arn, !.waitFor = for,
              !.maxWait = maxWait, !.isDeleting = isDeleting,
              !.clock = 0, !.delay = 1, !.polls = 0]

(***************************************************************************)
(* ensureAppRunner: discovery to dispatch.                                 *)
(***************************************************************************)
\* existingServiceSummary = undefined, then the dispatch with no service
AfterDelete(l) ==
    EnterFlow([l EXCEPT !.summaryArn = 0, !.summaryStatus = "",
                        !.hasExisting = FALSE],
              Dispatch(FALSE, ""))

\* the flow event of a step that entered a flow
FlowEntered(l, l2) ==
    IF l.flow = "none" /\ l2.flow # "none" THEN <<FlowEvent(l2.flow)>> ELSE <<>>

\* getOneLetsGoAppRunnerService(options) and the status tests that follow it
Discover(p) ==
    /\ loc[p].pc = "discover"
    /\ LET existingServices ==
               listLetsGoAppRunnerServices(svc, opt[p].deployment, opt[p].component)
           one == getOneLetsGoAppRunnerService(existingServices)
           status == IF one > 0 THEN svc[one].status ELSE ""
           l == [loc[p] EXCEPT !.found = Len(existingServices),
                               !.discoveredArn = IF one > 0 THEN one ELSE 0,
                               !.discoveredStatus = status,
                               !.summaryArn = IF one > 0 THEN one ELSE 0,
                               !.summaryStatus = status]
           next == IF one = -1 THEN "exit" ELSE AfterDiscovery(status)
           l2 == IF one = -1 THEN Finish(l, "Ambiguous")
                 ELSE IF next = "exit" THEN Finish(l, "Busy")
                 ELSE IF next = "dispatch" THEN EnterFlow(l, Dispatch(FALSE, ""))
                 ELSE [l EXCEPT !.pc = next]
       IN  /\ loc' = [loc EXCEPT ![p] = l2]
           /\ trace' = [trace EXCEPT ![p] = @ \o FlowEntered(loc[p], l2)]
    /\ UNCHANGED <<svc, rev, config, now, urlSink, opt>>

\* deleteAppRunnerService up to its call of waitForAppRunnerService
DeleteService(p) ==
    /\ loc[p].pc = "deleteService"
    /\ LET arn == loc[p].summaryArn
           answer == IF svc[arn].status = "NONE" THEN "ResourceNotFoundException"
                     ELSE IF svc[arn].status = "OPERATION_IN_PROGRESS"
                          THEN "InvalidStateException"
                          ELSE "ok"
           l2 == IF answer = "InvalidStateException" THEN Finish(loc[p], "InvalidState")
                 ELSE IF answer = "ResourceNotFoundException" THEN AfterDelete(loc[p])
                 ELSE EnterWait(loc[p], arn, "delete",
                                MaxWaitTimeForAppRunnerUpdate, TRUE)
       IN  /\ svc' = IF answer = "ok"
                     THEN [svc EXCEPT ![arn].status = "OPERATION_IN_PROGRESS",
                                      ![arn].op = "delete",
                                      ![arn].req = NoRequest]
                     ELSE svc
           /\ loc' = [loc EXCEPT ![p] = l2]
           /\ trace' = [trace EXCEPT ![p] =
                            @ \o <<Event("DeleteService", arn)>>
                              \o (IF answer = "ok" THEN <<Event("wait", arn)>> ELSE <<>>)
                              \o FlowEntered(loc[p], l2)]
    /\ UNCHANGED <<rev, config, now, urlSink, opt>>

\* describeService(region, existingServiceSummary.ServiceArn) and the dispatch
DescribeService(p) ==
    /\ loc[p].pc = "describeService"
    /\ LET arn == loc[p].summaryArn
           found == svc[arn].status # "NONE"
           l == [loc[p] EXCEPT !.hasExisting = found,
                               !.existingService = IF found THEN svc[arn] ELSE NoService]
           l2 == EnterFlow(l, Dispatch(found, loc[p].summaryStatus))
       IN  /\ loc' = [loc EXCEPT ![p] = l2]
           /\ trace' = [trace EXCEPT ![p] = @ \o FlowEntered(loc[p], l2)]
    /\ UNCHANGED <<svc, rev, config, now, urlSink, opt>>

(***************************************************************************)
(* waitForAppRunnerService and what its callers do with the result.        *)
(***************************************************************************)
\* mutant: the result of the wait is not looked at
deleteAfterWait_NoCheck(l, result) == AfterDelete(l)

\* deleteAppRunnerService after the wait, then ensureAppRunner
deleteAfterWait(l, result) ==
    IF result = "return-service" THEN Finish(l, "DeleteTimeout") ELSE AfterDelete(l)

\* mutant: the result of the wait is not looked at
createAfterWait_NoCheck(l, result) == Finish(l, "Created")

\* createAppRunnerService after the wait
createAfterWait(l, result) ==
    IF result = "return-service" THEN Finish(l, "Created")
    ELSE Finish([l EXCEPT !.followUp = l.createdArn], "CreateTimeout")

\* mutant: the LETSGO_UPDATED_AT comparison is missing
updateAfterWait_NoFingerprint(l, result, service) ==
    IF result # "return-service" THEN Finish(l, "UpdateTimeout")
    ELSE Finish(l, "UpToDate")

\* updateAppRunnerService after the wait
updateAfterWait(l, result, service) ==
    IF result # "return-service"
    THEN Finish([l EXCEPT !.followUp = l.summaryArn], "UpdateTimeout")
    ELSE IF service.LETSGO_UPDATED_AT # l.updatedAt THEN Finish(l, "RolledBack")
    ELSE Finish(l, "UpToDate")

\* the waiter's own variables go out of scope when it returns or exits; its
\* caller keeps what it returned
LeaveWait(l, result, service) ==
    [l EXCEPT !.clock = 0, !.delay = 1, !.polls = 0,
              !.returned = (result = "return-service"),
              !.service = IF result = "return-service" THEN service ELSE NoService]

AfterWait(l, result, service) ==
    LET left == LeaveWait(l, result, service)
    IN  IF result = "exit" THEN Finish(left, "UnexpectedStatus")
        ELSE IF result = "throw" THEN Finish(left, "Thrown")
        ELSE IF l.waitFor = "delete" THEN deleteAfterWait(left, result)
        ELSE IF l.waitFor = "create" THEN createAfterWait(left, result)
        ELSE updateAfterWait(left, result, service)

\* mutant: the clock is tested before the status
PollResult_ClockFirst(l, service) ==
    IF service.status = "NONE"
    THEN IF l.isDeleting THEN "return-undefined" ELSE "throw"
    ELSE IF l.clock >= l.maxWait THEN TimeoutResult(l.isDeleting)
         ELSE PollStatus(l.isDeleting, service.status)

\* what one iteration of the waiter's loop does with the describe answer
PollResult(l, service) ==
    IF service.status = "NONE"
    THEN IF l.isDeleting THEN "return-undefined" ELSE "throw"
    ELSE IF PollStatus(l.isDeleting, service.status) # "continue"
         THEN PollStatus(l.isDeleting, service.status)
         ELSE IF l.clock >= l.maxWait THEN TimeoutResult(l.isDeleting)
              ELSE "continue"

\* one iteration of waitForAppRunnerService's loop
WaitPoll(p) ==
    /\ loc[p].pc = "wait"
    /\ LET service == svc[loc[p].waitArn]
           result == PollResult(loc[p], service)
           l == [loc[p] EXCEPT !.polls = @ + 1]
           delay == NextDelay(l.clock, l.delay)
           l2 == IF result = "continue"
                 THEN [l EXCEPT !.delay = delay, !.clock = @ + delay]
                 ELSE AfterWait(l, result, service)
       IN  /\ loc' = [loc EXCEPT ![p] = l2]
           /\ trace' = [trace EXCEPT ![p] = @ \o FlowEntered(loc[p], l2)]
    /\ UNCHANGED <<svc, rev, config, now, urlSink, opt>>

(***************************************************************************)
(* deleteUnusedAutoScalingConfigurations.                                  *)
(***************************************************************************)
\* the revisions of a page the loop deletes
UnusedOf(services, revisions, page) ==
    {r \in page : Unused(HasAssociatedService(services, r), revisions[r].status)}

\* one iteration of the loop: a page is listed and its unused revisions deleted
Reclaim(p) ==
    /\ loc[p].pc = "reclaim"
    /\ LET name == opt[p].autoScalingConfigurationName
           page == RevisionPage(rev, name, loc[p].token)
           listed == {r \in page : ~HasAssociatedService(svc, r)
                                   /\ rev[r].status = "active"}
           unused == UnusedOf(svc, rev, page)
           done == ReclaimDone(RevisionNextToken(rev, name, loc[p].token))
       IN  /\ rev' = [r \in RevIds |->
                         IF r \in unused THEN [rev[r] EXCEPT !.status = "inactive"]
                         ELSE rev[r]]
           /\ loc' = [loc EXCEPT
                        ![p].reported = @ \cup listed,
                        ![p].token = IF done THEN @ ELSE @ + 1,
                        ![p].pc = IF ~done THEN "reclaim"
                                  ELSE IF loc[p].flow = "create"
                                       THEN "createAutoScaling"
                                       ELSE "describeAutoScaling"]
           /\ trace' = [trace EXCEPT ![p] =
                            @ \o Events("DeleteAutoScalingConfiguration",
                                        Ascending(unused))
                              \o (IF done THEN <<Event("reclaim-return", 0)>>
                                  ELSE <<>>)]
    /\ UNCHANGED <<svc, config, now, urlSink, opt>>

(***************************************************************************)
(* Autoscaling revisions.                                                  *)
(***************************************************************************)
FreeRevs == {r \in RevIds : rev[r].status = "none"}
FreeArns == {a \in Arns : svc[a].status = "NONE"}
Least(S) == CHOOSE x \in S : \A y \in S : x <= y

\* updateAppRunnerService: DescribeAutoScalingConfigurationCommand and the test
DescribeAutoScaling(p) ==
    /\ loc[p].pc = "describeAutoScaling"
    /\ LET arn == loc[p].existingService.asc
           known == arn \in RevIds /\ rev[arn].status # "none"
           needs == autoScalingNeedsUpdate(rev[arn].settings,
                                           getAutoScalingSettings(opt[p]))
       IN  loc' = [loc EXCEPT ![p] =
                      IF ~known THEN Finish(@, "Thrown")
                      ELSE [@ EXCEPT !.autoScalingNeedsUpdate = needs,
                                     !.pc = IF needs THEN "createAutoScaling"
                                            ELSE "getConfig"]]
    /\ UNCHANGED <<svc, rev, config, now, urlSink, opt, trace>>

\* CreateAutoScalingConfigurationCommand, in either flow
CreateAutoScaling(p) ==
    /\ loc[p].pc = "createAutoScaling"
    /\ FreeRevs # {}
    /\ LET arn == Least(FreeRevs)
       IN  /\ rev' = [rev EXCEPT ![arn] =
                         [status |-> "active",
                          name |-> opt[p].autoScalingConfigurationName,
                          settings |-> getAutoScalingSettings(opt[p])]]
           /\ loc' = [loc EXCEPT ![p].newArn = arn,
                                 ![p].pc = IF loc[p].flow = "create"
                                           THEN "createService" ELSE "getConfig"]
           /\ trace' = [trace EXCEPT ![p] =
                            @ \o <<Event("CreateAutoScalingConfiguration", arn)>>]
    /\ UNCHANGED <<svc, config, now, urlSink, opt>>

(***************************************************************************)
(* updateAppRunnerService.                                                 *)
(***************************************************************************)
\* the four tests that follow the autoscaling one
Needs(existingService, options, desiredConfig) ==
    [hc |-> healthCheckNeedsUpdate(existingService.hc, getHealthCheckSettings(options)),
     inst |-> instanceConfigurationNeedsUpdate(existingService, options),
     img |-> imageNeedsUpdate(existingService, options),
     cfg |-> configNeedsUpdate(DOMAIN existingService.secrets, DOMAIN desiredConfig,
                               options.ignoreConfigKeys)]

\* getConfig, the update plan, and new Date() when the plan is not empty
GetConfig(p) ==
    /\ loc[p].pc = "getConfig"
    /\ LET needs == Needs(loc[p].existingService, opt[p], config)
           plan == updatePlan(loc[p].newArn, needs.hc, needs.inst, needs.img, needs.cfg)
           l == [loc[p] EXCEPT !.desiredConfig = config, !.needs = needs,
                               !.plan = plan]
       IN  IF Len(plan) > 0
           THEN /\ loc' = [loc EXCEPT ![p] = [l EXCEPT !.updatedAt = now,
                                                      !.pc = "updateService"]]
                /\ now' = now + 1
           ELSE /\ loc' = [loc EXCEPT ![p] = Finish(l, "UpToDate")]
                /\ now' = now
    /\ UNCHANGED <<svc, rev, config, urlSink, opt, trace>>

\* apprunner.send(updateServiceCommand)
UpdateService(p) ==
    /\ loc[p].pc = "updateService"
    /\ LET arn == loc[p].summaryArn
           l == loc[p]
           accepted == svc[arn].status \notin {"NONE", "OPERATION_IN_PROGRESS"}
           command == UpdateServiceCommand(opt[p], l.newArn, l.needs.hc, l.needs.inst,
                                           l.needs.img, l.needs.cfg, l.desiredConfig,
                                           l.updatedAt)
       IN  /\ svc' = IF accepted
                     THEN [svc EXCEPT ![arn].status = "OPERATION_IN_PROGRESS",
                                      ![arn].op = "update",
                                      ![arn].req = command]
                     ELSE svc
           /\ loc' = [loc EXCEPT ![p] = IF accepted THEN [@ EXCEPT !.pc = "tagResource"]
                                        ELSE Finish(@, "Thrown")]
           /\ trace' = [trace EXCEPT ![p] = @ \o <<Event("UpdateService", arn)>>]
    /\ UNCHANGED <<rev, config, now, urlSink, opt>>

\* apprunner.send(tagResourceCommand), then the wait is entered
TagResource(p) ==
    /\ loc[p].pc = "tagResource"
    /\ LET arn == loc[p].summaryArn
           found == svc[arn].status # "NONE"
       IN  /\ svc' = IF found THEN [svc EXCEPT ![arn].tags = getTags(opt[p])] ELSE svc
           /\ loc' = [loc EXCEPT ![p] =
                         IF found
                         THEN EnterWait(@, arn, "update",
                                        MaxWaitTimeForAppRunnerUpdate, FALSE)
                         ELSE Finish(@, "Thrown")]
           /\ trace' = [trace EXCEPT ![p] =
                            @ \o <<Event("TagResource", arn)>>
                              \o (IF found THEN <<Event("wait", arn)>> ELSE <<>>)]
    /\ UNCHANGED <<rev, config, now, urlSink, opt>>

(***************************************************************************)
(* createAppRunnerService.                                                 *)
(***************************************************************************)
\* the Service a CreateServiceCommand starts
CreateServiceCommand(options, autoScalingArn, desiredConfig, updatedAt) ==
    [status |-> "OPERATION_IN_PROGRESS", op |-> "create",
     name |-> options.appRunnerServiceName,
     tags |-> getTags(options),
     asc |-> autoScalingArn,
     hc |-> getHealthCheckSettings(options),
     inst |-> Instance(options.appRunnerCpu, options.appRunnerMemory),
     image |-> ImageIdentifier(getEcrRepositoryArn(options.region,
                                                   options.ecrRepositoryName),
                               options.imageTag),
     secrets |-> desiredConfig,
     LETSGO_UPDATED_AT |-> updatedAt,
     req |-> NoRequest]

\* getConfig and apprunner.send(createServiceCommand)
CreateService(p) ==
    /\ loc[p].pc = "createService"
    /\ FreeArns # {}
    /\ LET refused == CreateRefused(svc, rev, opt[p].appRunnerServiceName,
                                    loc[p].newArn)
           arn == IF refused THEN 0 ELSE Least(FreeArns)
       IN  /\ svc' = IF refused THEN svc
                     ELSE [svc EXCEPT ![arn] =
                              CreateServiceCommand(opt[p], loc[p].newArn, config, now)]
           /\ loc' = [loc EXCEPT ![p] =
                         IF refused
                         THEN Finish([@ EXCEPT !.desiredConfig = config], "Thrown")
                         ELSE [@ EXCEPT !.createdArn = arn,
                                        !.desiredConfig = config,
                                        !.pc = "setAppRunnerUrl"]]
           /\ trace' = [trace EXCEPT ![p] = @ \o <<Event("CreateService", arn)>>]
    /\ now' = now + 1
    /\ UNCHANGED <<rev, config, urlSink, opt>>

\* mutant: the wait is entered without the sink having been called
SetAppRunnerUrl_Skipped(p) ==
    /\ loc[p].pc = "setAppRunnerUrl"
    /\ loc' = [loc EXCEPT ![p] = EnterWait(@, loc[p].createdArn, "create",
                                           MaxWaitTimeForAppRunnerCreate, FALSE)]
    /\ trace' = [trace EXCEPT ![p] = @ \o <<Event("wait", loc[p].createdArn)>>]
    /\ UNCHANGED <<svc, rev, config, now, opt, urlSink>>

\* options.setAppRunnerUrl(...), then the wait is entered
SetAppRunnerUrl(p) ==
    /\ loc[p].pc = "setAppRunnerUrl"
    /\ urlSink' = loc[p].createdArn
    /\ loc' = [loc EXCEPT ![p] = EnterWait(@, loc[p].createdArn, "create",
                                           MaxWaitTimeForAppRunnerCreate, FALSE)]
    /\ trace' = [trace EXCEPT ![p] = @ \o <<Event("setAppRunnerUrl", loc[p].createdArn),
                                            Event("wait", loc[p].createdArn)>>]
    /\ UNCHANGED <<svc, rev, config, now, opt>>

(***************************************************************************)
(* A caller runs ensureAppRunner again after a run has ended.              *)
(***************************************************************************)
Restart(p) ==
    /\ loc[p].pc = "done"
    /\ loc[p].run < MaxRuns
    /\ loc' = [loc EXCEPT ![p] =
                  [Locals("discover", loc[p].run + 1) EXCEPT
                      !.prevOutcome = loc[p].outcome,
                      !.prevFlow = loc[p].flow]]
    /\ trace' = [trace EXCEPT ![p] = <<>>]
    /\ UNCHANGED <<svc, rev, config, now, urlSink, opt>>

(***************************************************************************)
(* Initial states: the options of each invocation and the provider's       *)
(* services and revisions before the first run.                            *)
(***************************************************************************)
Options(component) ==
    [region |-> "us", deployment |-> "main", component |-> component,
     ecrRepositoryName |-> "repo", imageTag |-> <<"v2">>,
     autoScalingConfigurationName |-> "asc-api",
     autoScaling |-> [minSize |-> 1, maxSize |-> 5, maxConcurrency |-> 100],
     healthCheck |-> [path |-> "/health", interval |-> 5, timeout |-> 2,
                      healthyThreshold |-> 1, unhealthyThreshold |-> 5],
     appRunnerServiceName |-> IF component = "api" THEN "svc-api" ELSE "svc-web",
     appRunnerCpu |-> "1024", appRunnerMemory |-> "2048",
     ignoreConfigKeys |-> {"LEGACY_KEY"}]

StoredConfig == [k \in {"A", "LEGACY_KEY"} |-> "v1"]

\* a service that was converged to Options("api") at time 0
Converged ==
    [CreateServiceCommand(Options("api"), 1, StoredConfig, 0) EXCEPT
        !.status = "RUNNING", !.op = "none"]

\* the ways a service's configuration is made to differ from the desired one
AscChoices == {1, 2}
HcChoices == {Converged.hc, [Converged.hc EXCEPT !.Timeout = 3]}
InstChoices == {Converged.inst, [Converged.inst EXCEPT !.Memory = "4096"]}
ImageChoices ==
    {Converged.image,
     ImageIdentifier(getEcrRepositoryArn("us", "repo"), <<"v1">>)}
SecretChoices ==
    {StoredConfig,
     [k \in {"A", "LEGACY_KEY"} |-> IF k = "A" THEN "v2" ELSE "v1"],
     [k \in {"A"} |-> "v1"],
     [k \in {"A", "B", "LEGACY_KEY"} |-> "v1"]}

Configured ==
    {[Converged EXCEPT !.asc = a, !.hc = h, !.inst = i, !.image = im, !.secrets = se] :
        a \in AscChoices, h \in HcChoices, i \in InstChoices,
        im \in ImageChoices, se \in SecretChoices}

OtherTags == [dep |-> "main", comp |-> "web"]

\* the first service: absent, or in any status, tagged for the identity or not
FirstServices ==
    {NoService}
    \cup Configured
    \cup {[Converged EXCEPT !.status = st, !.tags = tg, !.image = im,
                            !.name = IF tg = OtherTags THEN "svc-web" ELSE @,
                            !.op = IF st = "OPERATION_IN_PROGRESS" THEN "update"
                                   ELSE "none"] :
             st \in Statuses, tg \in {Converged.tags, OtherTags},
             im \in ImageChoices}

\* the other services
OtherServices ==
    {NoService,
     [Converged EXCEPT !.name = "svc-api-2"],
     [Converged EXCEPT !.tags = OtherTags, !.name = "svc-web"],
     [Converged EXCEPT !.tags = OtherTags],
     [Converged EXCEPT !.status = "DELETED"]}

\* the third revision onwards: absent, unused or deleted
SpareRevisions ==
    {NoRevision,
     [status |-> "active", name |-> "asc-api", settings |-> AutoScaling(2, 2, 50)],
     [status |-> "inactive", name |-> "asc-api", settings |-> AutoScaling(2, 2, 50)]}

BaseRevision(name, settings) ==
    [status |-> "active", name |-> name, settings |-> settings]

\* revision 1 has the desired settings, revision 2 others, the last one
\* belongs to another name, and those in between are spare
InitialRevisions ==
    {[k \in RevIds |->
         IF k = 1 THEN BaseRevision("asc-api", AutoScaling(1, 5, 100))
         ELSE IF k = 2 THEN BaseRevision("asc-api", AutoScaling(1, 10, 100))
         ELSE IF k < InitRevs THEN spare[k]
         ELSE IF k = InitRevs THEN BaseRevision("asc-web", AutoScaling(1, 5, 100))
         ELSE NoRevision] :
        spare \in [3..(InitRevs - 1) -> SpareRevisions]}

InitialServices ==
    {[a \in Arns |->
         IF a = 1 THEN first
         ELSE IF a <= InitSvcs THEN others[a]
         ELSE NoService] :
        first \in FirstServices, others \in [2..InitSvcs -> OtherServices]}

\* the initial states are kept to one varied part at a time
OneVariedPart(s, r) ==
    \/ /\ s[1] \in Configured
       /\ \A a \in Arns \ {1} : s[a] = NoService
       /\ \A k \in 3..(InitRevs - 1) : r[k] = NoRevision
    \/ /\ s[1] \notin Configured \ {Converged}
       /\ \A k \in 3..(InitRevs - 1) : r[k] = NoRevision
    \/ /\ s[1] \in {NoService, Converged, [Converged EXCEPT !.asc = 2]}
       /\ \A a \in Arns \ {1} : s[a] = NoService

Init ==
    /\ svc \in InitialServices
    /\ rev \in InitialRevisions
    /\ OneVariedPart(svc, rev)
    /\ UniqueNames(svc)
    /\ config = StoredConfig
    /\ now = 1
    /\ urlSink = 0
    /\ opt = [p \in Procs |-> Options(IF p = 1 THEN "api" ELSE "web")]
    /\ loc = [p \in Procs |-> IF p = 1 THEN Locals("discover", 1) ELSE Locals("idle", 0)]
    /\ trace = [p \in Procs |-> <<>>]

Next ==
    \/ \E p \in Procs :
          \/ Discover(p)
          \/ DeleteService(p)
          \/ DescribeService(p)
          \/ WaitPoll(p)
          \/ Reclaim(p)
          \/ DescribeAutoScaling(p)
          \/ CreateAutoScaling(p)
          \/ GetConfig(p)
          \/ UpdateService(p)
          \/ TagResource(p)
          \/ CreateService(p)
          \/ SetAppRunnerUrl(p)
          \/ Restart(p)
    \/ \E a \in Arns : ProviderComplete(a) \/ ProviderRemove(a)

Spec == Init /\ [][Next]_vars

(***************************************************************************)
(* The waits on their own: one invocation for one service that is absent,  *)
(* failed to create or differs in its image, while the provider may report *)
(* any status at any time.                                                 *)
(***************************************************************************)
WaitServices ==
    {NoService,
     [Converged EXCEPT !.status = "CREATE_FAILED"],
     [Converged EXCEPT !.image = ImageIdentifier(getEcrRepositoryArn("us", "repo"),
                                                 <<"v1">>)]}

InitWait ==
    /\ \E first \in WaitServices :
          svc = [a \in Arns |-> IF a = 1 THEN first ELSE NoService]
    /\ rev = [k \in RevIds |->
                 IF k = 1 THEN BaseRevision("asc-api", AutoScaling(1, 5, 100))
                 ELSE NoRevision]
    /\ config = StoredConfig
    /\ now = 1
    /\ urlSink = 0
    /\ opt = [p \in Procs |-> Options(IF p = 1 THEN "api" ELSE "web")]
    /\ loc = [p \in Procs |-> IF p = 1 THEN Locals("discover", 1) ELSE Locals("idle", 0)]
    /\ trace = [p \in Procs |-> <<>>]

NextWait ==
    \/ \E p \in Procs :
          \/ Discover(p)
          \/ DeleteService(p)
          \/ DescribeService(p)
          \/ WaitPoll(p)
          \/ Reclaim(p)
          \/ DescribeAutoScaling(p)
          \/ CreateAutoScaling(p)
          \/ GetConfig(p)
          \/ UpdateService(p)
          \/ TagResource(p)
          \/ CreateService(p)
          \/ SetAppRunnerUrl(p)
    \/ \E a \in Arns : ProviderComplete(a) \/ ProviderRemove(a) \/ ProviderReports(a)

SpecWait == InitWait /\ [][NextWait]_vars

(***************************************************************************)
(* waitForAppRunnerService on its own: called for a service with an        *)
(* operation in progress, with any maxWait of a range and with the bound   *)
(* the flows pass, while the provider may report any status.               *)
(***************************************************************************)
WaiterMaxWait == 30

MaxWaits == 0..WaiterMaxWait \cup {MaxWaitTimeForAppRunnerCreate}

InitWaiter ==
    /\ svc = [a \in Arns |->
                 IF a = 1
                 THEN [Converged EXCEPT !.status = "OPERATION_IN_PROGRESS",
                                        !.op = "update"]
                 ELSE NoService]
    /\ rev = [k \in RevIds |->
                 IF k = 1 THEN BaseRevision("asc-api", AutoScaling(1, 5, 100))
                 ELSE NoRevision]
    /\ config = StoredConfig
    /\ now = 1
    /\ urlSink = 0
    /\ opt = [p \in Procs |-> Options(IF p = 1 THEN "api" ELSE "web")]
    /\ \E maxWait \in MaxWaits, isDeleting \in BOOLEAN :
          loc = [p \in Procs |->
                    IF p = 1
                    THEN EnterWait([Locals("wait", 1) EXCEPT !.summaryArn = 1,
                                                            !.createdArn = 1],
                                   1, IF isDeleting THEN "delete" ELSE "create",
                                   maxWait, isDeleting)
                    ELSE Locals("idle", 0)]
    /\ trace = [p \in Procs |-> <<>>]

NextWaiter ==
    \/ \E p \in Procs : WaitPoll(p)
    \/ \E a \in Arns : ProviderRemove(a) \/ ProviderReports(a)

\* the loop runs on: each sleep ends and the next describe is sent
SpecWaiter ==
    /\ InitWaiter
    /\ [][NextWaiter]_vars
    /\ \A p \in Procs : WF_vars(WaitPoll(p))

(***************************************************************************)
(* Re-invocation without end: an invocation may be killed between any two  *)
(* of its steps, the caller invokes again whenever a run has ended, and    *)
(* the provider finishes every operation as asked.                         *)
(***************************************************************************)
MaxTerminations == 1

\* the process running p's invocation is killed
Terminate(p) ==
    /\ loc[p].pc \notin {"idle", "done"}
    /\ loc[p].terminated < MaxTerminations
    /\ loc' = [loc EXCEPT ![p] = Finish([@ EXCEPT !.terminated = @ + 1], "Terminated")]
    /\ UNCHANGED <<svc, rev, config, now, urlSink, opt, trace>>

\* the caller invokes ensureAppRunner again; nothing is kept from the run before
Reinvoke(p) ==
    /\ loc[p].pc = "done"
    /\ loc' = [loc EXCEPT ![p] =
                  [Locals("discover", MaxRuns) EXCEPT
                      !.terminated = loc[p].terminated]]
    /\ trace' = [trace EXCEPT ![p] = <<>>]
    /\ UNCHANGED <<svc, rev, config, now, urlSink, opt>>

\* a step of p's invocation
Step(p) ==
    \/ Discover(p)
    \/ DeleteService(p)
    \/ DescribeService(p)
    \/ WaitPoll(p)
    \/ Reclaim(p)
    \/ DescribeAutoScaling(p)
    \/ CreateAutoScaling(p)
    \/ GetConfig(p)
    \/ UpdateService(p)
    \/ TagResource(p)
    \/ CreateService(p)
    \/ SetAppRunnerUrl(p)

InitRestart ==
    /\ \E first \in WaitServices :
          svc = [a \in Arns |-> IF a = 1 THEN first ELSE NoService]
    /\ rev = [k \in RevIds |->
                 IF k = 1 THEN BaseRevision("asc-api", AutoScaling(1, 5, 100))
                 ELSE NoRevision]
    /\ config = StoredConfig
    /\ now = 1
    /\ urlSink = 0
    /\ opt = [p \in Procs |-> Options(IF p = 1 THEN "api" ELSE "web")]
    /\ loc = [p \in Procs |-> IF p = 1 THEN Locals("discover", 1) ELSE Locals("idle", 0)]
    /\ trace = [p \in Procs |-> <<>>]

NextRestart ==
    \/ \E p \in Procs : Step(p) \/ Terminate(p) \/ Reinvoke(p)
    \/ \E a \in Arns : ProviderSucceeds(a) \/ ProviderRemove(a)

\* the invocation runs on, the caller invokes again, and the provider
\* finishes what is in progress
SpecRestart ==
    /\ InitRestart
    /\ [][NextRestart]_vars
    /\ \A p \in Procs : WF_vars(Step(p)) /\ WF_vars(Reinvoke(p))
    /\ \A a \in Arns : WF_vars(ProviderSucceeds(a))

(***************************************************************************)
(* Two invocations at once, for a service that is absent or differs in its *)
(* image: the second is for the same identity (under the same service name *)
(* or another) or for another component that uses the same autoscaling     *)
(* configuration name.  The waits are followed by the polls that end them. *)
(***************************************************************************)
PairOptions ==
    {Options("api"),
     [Options("api") EXCEPT !.appRunnerServiceName = "svc-api-2"],
     Options("web")}

\* a poll of p's waiter that makes it return or exit
PairPoll(p) ==
    /\ loc[p].pc = "wait"
    /\ PollResult(loc[p], svc[loc[p].waitArn]) # "continue"
    /\ WaitPoll(p)

InitPair ==
    /\ \E first \in {NoService,
                      [Converged EXCEPT !.image =
                          ImageIdentifier(getEcrRepositoryArn("us", "repo"), <<"v1">>)]} :
          svc = [a \in Arns |-> IF a = 1 THEN first ELSE NoService]
    /\ rev = [k \in RevIds |->
                 IF k = 1 THEN BaseRevision("asc-api", AutoScaling(1, 5, 100))
                 ELSE NoRevision]
    /\ config = StoredConfig
    /\ now = 1
    /\ urlSink = 0
    /\ \E other \in PairOptions :
          opt = [p \in Procs |-> IF p = 1 THEN Options("api") ELSE other]
    /\ loc = [p \in Procs |-> Locals("discover", 1)]
    /\ trace = [p \in Procs |-> <<>>]

NextPair ==
    \/ \E p \in Procs :
          \/ Discover(p)
          \/ DeleteService(p)
          \/ DescribeService(p)
          \/ PairPoll(p)
          \/ Reclaim(p)
          \/ DescribeAutoScaling(p)
          \/ CreateAutoScaling(p)
          \/ GetConfig(p)
          \/ UpdateService(p)
          \/ TagResource(p)
          \/ CreateService(p)
          \/ SetAppRunnerUrl(p)
    \/ \E a \in Arns : ProviderComplete(a) \/ ProviderRemove(a)

SpecPair == InitPair /\ [][NextPair]_vars

(***************************************************************************)
(* The update plan on its own: one existing service whose configuration    *)
(* and autoscaling revision vary field by field, and the steps of          *)
(* updateAppRunnerService up to the plan.                                  *)
(***************************************************************************)
HcFields ==
    {Converged.hc,
     [Converged.hc EXCEPT !.Path = "/"],
     [Converged.hc EXCEPT !.Interval = 10],
     [Converged.hc EXCEPT !.Timeout = 3],
     [Converged.hc EXCEPT !.HealthyThreshold = 2],
     [Converged.hc EXCEPT !.UnhealthyThreshold = 6],
     [Converged.hc EXCEPT !.Path = "/", !.Interval = 10, !.Timeout = 3,
                          !.HealthyThreshold = 2, !.UnhealthyThreshold = 6]}

InstFields == {Instance(c, m) : c \in {"1024", "2048"}, m \in {"2048", "4096"}}

ImageFields ==
    {ImageIdentifier(getEcrRepositoryArn("us", "repo"), <<"v2">>),
     ImageIdentifier(getEcrRepositoryArn("us", "repo"), <<"v1">>),
     ImageIdentifier(getEcrRepositoryArn("us", "other"), <<"v2">>)}

SecretFields ==
    {[k \in S |-> "v1"] : S \in SUBSET Keys}
    \cup {[k \in {"A", "LEGACY_KEY"} |-> IF k = "A" THEN "v2" ELSE "v1"]}

AscFields ==
    {AutoScaling(mi, ma, c) : mi \in {1, 2}, ma \in {5, 10}, c \in {100, 50}}

\* what getConfig returns: with the ignored key, without it, with another key
ConfigFields ==
    {[k \in S |-> "v1"] : S \in {{"A", "LEGACY_KEY"}, {"A"}, {"A", "B"}}}

InitDiff ==
    /\ \E h \in HcFields, i \in InstFields, im \in ImageFields, se \in SecretFields :
          svc = [a \in Arns |->
                    IF a = 1
                    THEN [Converged EXCEPT !.asc = 2, !.hc = h, !.inst = i,
                                           !.image = im, !.secrets = se]
                    ELSE NoService]
    /\ \E settings \in AscFields :
          rev = [k \in RevIds |->
                    IF k = 2 THEN BaseRevision("asc-api", settings) ELSE NoRevision]
    /\ config \in ConfigFields
    /\ now = 1
    /\ urlSink = 0
    /\ \E max \in {5, 10} :
          opt = [p \in Procs |->
                    [Options(IF p = 1 THEN "api" ELSE "web") EXCEPT
                        !.autoScaling.maxSize = max]]
    /\ loc = [p \in Procs |-> IF p = 1 THEN Locals("discover", 1) ELSE Locals("idle", 0)]
    /\ trace = [p \in Procs |-> <<>>]

NextDiff ==
    \E p \in Procs :
        \/ Discover(p)
        \/ DescribeService(p)
        \/ Reclaim(p)
        \/ DescribeAutoScaling(p)
        \/ CreateAutoScaling(p)
        \/ GetConfig(p)

SpecDiff == InitDiff /\ [][NextDiff]_vars

(***************************************************************************)
(* Properties.                                                             *)
(***************************************************************************)
\* the positions of a call in the trace of p's current run
Calls(p, call) == {i \in DOMAIN trace[p] : trace[p][i].call = call}

MutatingCalls ==
    {"CreateService", "UpdateService", "DeleteService", "TagResource",
     "CreateAutoScalingConfiguration", "DeleteAutoScalingConfiguration"}

\* p's current run has issued no mutating remote call
NoMutatingCall(p) == \A i \in DOMAIN trace[p] : trace[p][i].call \notin MutatingCalls

FatalOutcomes ==
    {"Ambiguous", "Busy", "InvalidState", "UnexpectedStatus", "DeleteTimeout",
     "CreateTimeout", "UpdateTimeout", "RolledBack", "Thrown"}

\* C1: a run whose discovery found two or more matching services has ended
\* with the Ambiguous fatal outcome, has issued no mutating call, has kept no
\* summary and has entered no flow.
C1_AmbiguityIsFatal ==
    \A p \in Procs :
        loc[p].found >= 2 =>
            /\ loc[p].pc = "done"
            /\ loc[p].outcome = "Ambiguous"
            /\ NoMutatingCall(p)
            /\ loc[p].summaryArn = 0
            /\ loc[p].flow = "none"

C1_Witness ==
    \E p \in Procs : loc[p].found >= 2 /\ loc[p].pc = "done"

\* C2: a run whose discovery found one service, in OPERATION_IN_PROGRESS, has
\* ended with the Busy fatal outcome, without any mutating call and without
\* entering the waiter or a flow.
C2_BusyIsFatal ==
    \A p \in Procs :
        (loc[p].found = 1 /\ loc[p].discoveredStatus = "OPERATION_IN_PROGRESS") =>
            /\ loc[p].pc = "done"
            /\ loc[p].outcome = "Busy"
            /\ NoMutatingCall(p)
            /\ Calls(p, "wait") = {}
            /\ loc[p].polls = 0
            /\ loc[p].flow = "none"

C2_Witness ==
    \E p \in Procs :
        /\ loc[p].found = 1
        /\ loc[p].discoveredStatus = "OPERATION_IN_PROGRESS"
        /\ loc[p].pc = "done"

\* the trace of a run that discovered a CREATE_FAILED service: the delete of
\* that service comes first, update-flow is never entered, and every call of
\* the create-flow comes after the flow was entered
C3_Order(p) ==
    loc[p].discoveredStatus = "CREATE_FAILED" =>
        /\ loc[p].flow # "update"
        /\ Calls(p, "update-flow") = {}
        /\ Calls(p, "UpdateService") = {}
        /\ trace[p] # <<>> => trace[p][1] = Event("DeleteService", loc[p].discoveredArn)
        /\ \A i \in Calls(p, "CreateService") \cup Calls(p, "CreateAutoScalingConfiguration") :
              \E j \in Calls(p, "create-flow") : j < i
        /\ loc[p].flow = "create" => Calls(p, "create-flow") # {}

\* the step that enters a flow after a CREATE_FAILED discovery enters
\* create-flow, and the discovered service is then gone or DELETED
C3_Step(p) ==
    (/\ loc[p].discoveredStatus = "CREATE_FAILED"
     /\ loc[p].flow = "none"
     /\ loc'[p].flow # "none") =>
        /\ loc'[p].flow = "create"
        /\ svc[loc[p].discoveredArn].status \in {"NONE", "DELETED"}
        /\ trace'[p][1] = Event("DeleteService", loc[p].discoveredArn)

\* C3: after discovering one CREATE_FAILED service the run deletes it, enters
\* create-flow only once the service is confirmed deleted, and never enters
\* update-flow.
C3_CreateFailedRecovery ==
    /\ [](\A p \in Procs : C3_Order(p))
    /\ [][\A p \in Procs : C3_Step(p)]_vars

C3_Witness ==
    \E p \in Procs :
        /\ loc[p].discoveredStatus = "CREATE_FAILED"
        /\ loc[p].flow = "create"
        /\ Calls(p, "wait") # {}
        /\ Calls(p, "CreateService") # {}

\* what the claim calls absent-or-DELETED, from what discovery found and what
\* the provider holds when the flow is entered
C4_Absent(l, services) ==
    \/ l.found = 0
    \/ l.discoveredStatus \in {"CREATE_FAILED", "DELETED"}
    \/ services[l.discoveredArn].status = "NONE"

C4_Counts(p) ==
    /\ Cardinality(Calls(p, "create-flow") \cup Calls(p, "update-flow")) <= 1
    /\ Cardinality(Calls(p, "CreateService")) <= 1
    /\ Cardinality(Calls(p, "UpdateService")) <= 1
    /\ Calls(p, "CreateService") = {} \/ Calls(p, "UpdateService") = {}
    /\ Calls(p, "CreateService") # {} => loc[p].flow = "create"
    /\ Calls(p, "UpdateService") # {} => loc[p].flow = "update"
    /\ loc[p].flow = "create" <=> Calls(p, "create-flow") # {}
    /\ loc[p].flow = "update" <=> Calls(p, "update-flow") # {}
    /\ (loc[p].pc = "done" /\ loc[p].flow = "none") =>
           loc[p].outcome \in {"Ambiguous", "Busy", "InvalidState",
                               "UnexpectedStatus", "DeleteTimeout"}

C4_Step(p) ==
    (loc[p].flow = "none" /\ loc'[p].flow # "none") =>
        (loc'[p].flow = "create" <=> C4_Absent(loc'[p], svc))

\* C4: a run enters at most one flow and exactly one unless it ended fatally
\* before the dispatch, issues at most one create-service or one
\* update-service and never both, and enters create-flow exactly when the
\* service is absent or was discovered DELETED.
C4_DispatchExclusive ==
    /\ [](\A p \in Procs : C4_Counts(p))
    /\ [][\A p \in Procs : C4_Step(p)]_vars

C4_Witness ==
    \E p \in Procs :
        /\ loc[p].flow = "update"
        /\ loc[p].discoveredStatus = "PAUSED"
        /\ Calls(p, "UpdateService") # {}

\* C5: when the wait of update-flow returned a record whose LETSGO_UPDATED_AT
\* is not the timestamp of this update, the run has ended RolledBack.
C5_RollbackDetected ==
    \A p \in Procs :
        (/\ loc[p].flow = "update"
         /\ Calls(p, "UpdateService") # {}
         /\ loc[p].returned
         /\ loc[p].service.LETSGO_UPDATED_AT # loc[p].updatedAt) =>
            /\ loc[p].pc = "done"
            /\ loc[p].outcome = "RolledBack"

C5_Witness ==
    \E p \in Procs :
        /\ loc[p].flow = "update"
        /\ loc[p].returned
        /\ loc[p].service.status = "RUNNING"
        /\ loc[p].service.LETSGO_UPDATED_AT # loc[p].updatedAt
        /\ loc[p].outcome = "RolledBack"

\* the LETSGO_UPDATED_AT values an UpdateService request carries
RequestFingerprint(req) ==
    {c.LETSGO_UPDATED_AT : c \in UNION {x.imgCfg : x \in req.src}}

\* C6: every update request a run has submitted carries the timestamp that
\* the run compares after the wait.
C6_FingerprintSubmitted ==
    \A p \in Procs :
        (/\ loc[p].pc \in {"tagResource", "wait"}
         /\ loc[p].flow = "update"
         /\ svc[loc[p].summaryArn].status = "OPERATION_IN_PROGRESS"
         /\ svc[loc[p].summaryArn].op = "update") =>
            RequestFingerprint(svc[loc[p].summaryArn].req) = {loc[p].updatedAt}

\* C7: an update-flow run that has ended without a fatal outcome has issued
\* a tag-resource call for the service.
C7_TagsAlways ==
    \A p \in Procs :
        (/\ loc[p].pc = "done"
         /\ loc[p].flow = "update"
         /\ loc[p].outcome \notin FatalOutcomes) =>
            Event("TagResource", loc[p].summaryArn) \in
                {trace[p][i] : i \in DOMAIN trace[p]}

\* the order of p's calls: a revision is created only after reclaim has
\* returned, and each revision a listing page reported unused has had its
\* delete issued before the return
C8_Order(p) ==
    /\ \A i \in Calls(p, "CreateAutoScalingConfiguration") :
          \E j \in Calls(p, "reclaim-return") : j < i
    /\ \A j \in Calls(p, "reclaim-return") :
          \A r \in loc[p].reported :
              \E k \in 1..(j - 1) :
                  trace[p][k] = Event("DeleteAutoScalingConfiguration", r)

\* the step in which p's reclaim returns: the pages it has listed hold every
\* revision of the name, so that no page of the listing was left out
C8_Return(p) ==
    (/\ Calls(p, "reclaim-return") = {}
     /\ \E j \in DOMAIN trace'[p] : trace'[p][j].call = "reclaim-return") =>
        \A r \in RevIds :
            (/\ rev'[r].name = opt[p].autoScalingConfigurationName
             /\ rev'[r].status # "none") => r <= loc'[p].token * RevPageSize

\* C8: every create of an autoscaling revision comes after reclaim has
\* returned, and at its return reclaim has issued a delete for every revision
\* the listing reported unused, on every page of the listing.
C8_QuotaSafety ==
    /\ [](\A p \in Procs : C8_Order(p))
    /\ [][\A p \in Procs : C8_Return(p)]_vars

C8_Witness ==
    \E p \in Procs :
        \E i \in Calls(p, "CreateAutoScalingConfiguration") :
            \E k \in 1..(i - 1) :
                /\ trace[p][k].call = "DeleteAutoScalingConfiguration"
                /\ trace[p][k].arg > RevPageSize

\* p runs update-flow again after its previous run of update-flow succeeded
C9_SecondRun(p) ==
    /\ loc[p].run >= 2
    /\ loc[p].prevFlow = "update"
    /\ loc[p].prevOutcome = "UpToDate"
    /\ loc[p].flow = "update"

C10_Differs(p) ==
    LET observed == loc[p].existingService
        current == rev[observed.asc].settings
        desired == opt[p]
    IN  {c \in {"autoscaling settings", "healthcheck settings",
                "instance configuration", "image", "variables"} :
            CASE c = "autoscaling settings" ->
                    <<current.MinSize, current.MaxSize, current.MaxConcurrency>> #
                    <<desired.autoScaling.minSize, desired.autoScaling.maxSize,
                      desired.autoScaling.maxConcurrency>>
              [] c = "healthcheck settings" ->
                    <<observed.hc.Path, observed.hc.Interval, observed.hc.Timeout,
                      observed.hc.HealthyThreshold, observed.hc.UnhealthyThreshold>> #
                    <<desired.healthCheck.path, desired.healthCheck.interval,
                      desired.healthCheck.timeout, desired.healthCheck.healthyThreshold,
                      desired.healthCheck.unhealthyThreshold>>
              [] c = "instance configuration" ->
                    <<observed.inst.Cpu, observed.inst.Memory>> #
                    <<desired.appRunnerCpu, desired.appRunnerMemory>>
              [] c = "image" ->
                    observed.image #
                    <<"ecr", desired.region, desired.ecrRepositoryName, ":">>
                        \o desired.imageTag
              [] OTHER ->
                    (DOMAIN observed.secrets) \ desired.ignoreConfigKeys #
                    (DOMAIN config) \ desired.ignoreConfigKeys}

\* p has computed its update plan
C10_Planned(p) ==
    \/ loc[p].pc = "updateService"
    \/ loc[p].pc = "done" /\ loc[p].flow = "update" /\ loc[p].outcome = "UpToDate"

\* C10: when observed and desired differ in exactly one category the plan
\* holds exactly that category, and the plan has no autoscaling entry when
\* the autoscaling settings are equal.
C10_DiffMinimality ==
    \A p \in Procs :
        C10_Planned(p) =>
            /\ Cardinality(C10_Differs(p)) = 1 =>
                  /\ Len(loc[p].plan) = 1
                  /\ {loc[p].plan[i] : i \in DOMAIN loc[p].plan} = C10_Differs(p)
            /\ "autoscaling settings" \notin C10_Differs(p) =>
                  \A i \in DOMAIN loc[p].plan : loc[p].plan[i] # "autoscaling settings"

C10_Witness ==
    \E p \in Procs :
        /\ C10_Planned(p)
        /\ rev[loc[p].existingService.asc].settings = AutoScaling(1, 5, 100)
        /\ opt[p].autoScaling = [minSize |-> 1, maxSize |-> 10, maxConcurrency |-> 100]
        /\ loc[p].plan = <<"autoscaling settings">>

\* C11: the plan has the variables category exactly when the desired keys
\* and the current keys, each without the keys of ignoreConfigKeys, are
\* different sets; the values bound to the keys play no part.
C11_VariablesDiff ==
    \A p \in Procs :
        C10_Planned(p) =>
            ((\E i \in DOMAIN loc[p].plan : loc[p].plan[i] = "variables")
             <=> (DOMAIN config) \ opt[p].ignoreConfigKeys #
                 (DOMAIN loc[p].existingService.secrets) \ opt[p].ignoreConfigKeys)

\* current {A, LEGACY_KEY} with another value for A, desired {A}, ignoring
\* LEGACY_KEY: no variables entry
C11_Witness ==
    \E p \in Procs :
        /\ C10_Planned(p)
        /\ opt[p].ignoreConfigKeys = {"LEGACY_KEY"}
        /\ loc[p].existingService.secrets =
               [k \in {"A", "LEGACY_KEY"} |-> IF k = "A" THEN "v2" ELSE "v1"]
        /\ config = [k \in {"A"} |-> "v1"]
        /\ \A i \in DOMAIN loc[p].plan : loc[p].plan[i] # "variables"

\* the delay the schedule gives for t seconds elapsed:
\* [0,5) -> 1, [5,20) -> 2, [20,60) -> 5, [60,...) -> 10
C12_Schedule(t) ==
    IF t < 5 THEN 1 ELSE IF t < 20 THEN 2 ELSE IF t < 60 THEN 5 ELSE 10

\* C12: at every tick of the waiter the delay chosen before the next poll is
\* the one the schedule gives for the seconds elapsed at that tick (the
\* clock before the delay was added to it).
C12_DelaySchedule ==
    \A p \in Procs :
        (loc[p].pc = "wait" /\ loc[p].polls > 0) =>
            loc[p].delay = C12_Schedule(loc[p].clock - loc[p].delay)

\* p's waiter polls with maxWait elapsed and is answered in progress
C13_TimeoutTick(p) ==
    /\ loc[p].pc = "wait"
    /\ loc'[p] # loc[p]
    /\ loc[p].clock >= loc[p].maxWait
    /\ svc[loc[p].waitArn].status = "OPERATION_IN_PROGRESS"

\* C13 as stated: on the timeout a reachRunning wait returns the record last
\* observed and a reachDeleted wait returns absent.
C13_TimeoutResult ==
    [][\A p \in Procs :
          C13_TimeoutTick(p) =>
              /\ loc'[p].pc # "wait"
              /\ IF loc[p].isDeleting
                 THEN ~loc'[p].returned
                 ELSE /\ loc'[p].returned
                      /\ loc'[p].service = svc[loc[p].waitArn]]_vars

\* C13 amended: on the timeout a reachRunning wait returns absent and a
\* reachDeleted wait returns the record last observed.
C13_TimeoutResultAsCoded ==
    [][\A p \in Procs :
          C13_TimeoutTick(p) =>
              /\ loc'[p].pc # "wait"
              /\ IF loc[p].isDeleting
                 THEN /\ loc'[p].returned
                      /\ loc'[p].service = svc[loc[p].waitArn]
                 ELSE ~loc'[p].returned]_vars

C13_Witness ==
    \E p \in Procs :
        /\ loc[p].pc = "done"
        /\ loc[p].waitFor = "delete"
        /\ loc[p].maxWait = MaxWaitTimeForAppRunnerUpdate
        /\ loc[p].returned
        /\ loc[p].service.status = "OPERATION_IN_PROGRESS"

\* p's reachRunning waiter polls and is answered with a status that is
\* neither RUNNING nor in progress
C14_FailedTick(p) ==
    /\ loc[p].pc = "wait"
    /\ loc'[p] # loc[p]
    /\ ~loc[p].isDeleting
    /\ svc[loc[p].waitArn].status \notin {"NONE", "RUNNING", "OPERATION_IN_PROGRESS"}

\* the step that ends p's reachRunning wait by the timeout: the run ends with
\* the timeout outcome of its flow, which gives the URL of the service waited
\* for; the failed-status step ends it with another outcome
C14_Step(p) ==
    /\ (C13_TimeoutTick(p) /\ ~loc[p].isDeleting) =>
          /\ loc'[p].pc = "done"
          /\ loc'[p].outcome = IF loc[p].waitFor = "create" THEN "CreateTimeout"
                               ELSE "UpdateTimeout"
          /\ loc'[p].followUp = loc[p].waitArn
    /\ C14_FailedTick(p) =>
          /\ loc'[p].pc = "done"
          /\ loc'[p].outcome = "UnexpectedStatus"

\* a success report that follows a wait follows a poll that observed RUNNING
C14_Success(p) ==
    (/\ loc[p].pc = "done"
     /\ loc[p].outcome \in {"Created", "UpToDate"}
     /\ loc[p].waitFor \in {"create", "update"}) =>
        /\ loc[p].returned
        /\ loc[p].service.status = "RUNNING"

\* C14: a reachRunning wait of create-flow or update-flow that only observes
\* OPERATION_IN_PROGRESS up to the bound never ends in the created / up to
\* date report; the run ends with a timeout outcome that gives the service's
\* URL, and that outcome differs from the one of an unexpected status.
C14_TimeoutIsNotSuccess ==
    /\ [](\A p \in Procs : C14_Success(p))
    /\ [][\A p \in Procs : C14_Step(p)]_vars

C14_Witness ==
    \E p \in Procs :
        /\ loc[p].pc = "done"
        /\ loc[p].outcome = "CreateTimeout"
        /\ loc[p].followUp = loc[p].createdArn
        /\ loc[p].createdArn # 0
        /\ svc[loc[p].createdArn].status = "OPERATION_IN_PROGRESS"

\* p's waiter polls
C15_Poll(p) == loc[p].pc = "wait" /\ loc'[p] # loc[p]

\* one poll of p's reachRunning wait
C15_Step(p) ==
    LET status == svc[loc[p].waitArn].status
    IN  (C15_Poll(p) /\ ~loc[p].isDeleting) =>
            /\ status = "RUNNING" =>
                  /\ loc'[p].pc # "wait"
                  /\ loc'[p].returned
                  /\ loc'[p].service = svc[loc[p].waitArn]
                  /\ loc'[p].outcome \notin {"UnexpectedStatus", "CreateTimeout",
                                             "UpdateTimeout", "Thrown"}
            /\ status \in {"CREATE_FAILED", "UPDATE_FAILED", "DELETED", "PAUSED"} =>
                  /\ loc'[p].pc = "done"
                  /\ loc'[p].outcome = "UnexpectedStatus"
            /\ loc'[p].pc = "wait" =>
                  /\ status = "OPERATION_IN_PROGRESS"
                  /\ loc[p].clock < loc[p].maxWait
                  /\ loc'[p].polls = loc[p].polls + 1

\* C15: in a reachRunning wait the first poll that observes RUNNING makes the
\* wait return that record; the first poll that observes CREATE_FAILED,
\* UPDATE_FAILED, DELETED or PAUSED ends the run fatally with no further
\* poll; the waiter polls again only after observing OPERATION_IN_PROGRESS
\* with the bound not elapsed.
C15_ReachRunning == [][\A p \in Procs : C15_Step(p)]_vars

C15_Witness ==
    \E p \in Procs :
        /\ loc[p].pc = "done"
        /\ loc[p].outcome = "UnexpectedStatus"
        /\ loc[p].waitFor = "update"
        /\ svc[loc[p].waitArn].status = "PAUSED"

\* deleteAppRunnerService returns normally in this step of p: the dispatch
\* that follows it enters a flow
C16_Returns(p) ==
    /\ loc[p].pc = "deleteService" \/ (loc[p].pc = "wait" /\ loc[p].isDeleting)
    /\ loc'[p].pc = "reclaim"

\* one step of p's delete-flow
C16_Step(p) ==
    LET status == svc[loc[p].summaryArn].status
    IN  /\ (loc[p].pc = "deleteService" /\ loc'[p] # loc[p] /\ status = "NONE") =>
              /\ C16_Returns(p)
              /\ \A i \in DOMAIN trace'[p] : trace'[p][i].call # "wait"
        /\ (C15_Poll(p) /\ loc[p].isDeleting) =>
              /\ loc[p].waitArn = loc[p].summaryArn
              /\ loc[p].maxWait = 15 * 60
              /\ status \in {"NONE", "DELETED"} => C16_Returns(p)
              /\ status \notin {"NONE", "DELETED", "OPERATION_IN_PROGRESS"} =>
                    /\ loc'[p].pc = "done"
                    /\ loc'[p].outcome = "UnexpectedStatus"
              /\ (status = "OPERATION_IN_PROGRESS" /\ loc[p].clock >= loc[p].maxWait) =>
                    /\ loc'[p].pc = "done"
                    /\ loc'[p].outcome = "DeleteTimeout"
        /\ C16_Returns(p) => status \in {"NONE", "DELETED"}

\* C16: delete-service answered not-found ends delete-flow as a success with
\* no poll; otherwise the reachDeleted wait succeeds on not-found or DELETED,
\* ends the run fatally on any other status that is not in progress and on
\* the 15-minute bound; delete-flow never returns normally when the last
\* answer showed the service present.
C16_DeleteFlow == [][\A p \in Procs : C16_Step(p)]_vars

C16_Witness ==
    \E p \in Procs :
        /\ loc[p].flow = "create"
        /\ loc[p].discoveredStatus = "CREATE_FAILED"
        /\ Calls(p, "DeleteService") # {}
        /\ Calls(p, "wait") = {}
        /\ Calls(p, "create-flow") # {}

\* C17: the sink is called right after a create-service that returned, with
\* the URL of the service it created and before the wait is entered, so that
\* it is set in every run whose create-service succeeded, whatever the wait
\* then does; it is not called when create-service was not issued or failed.
C17_UrlBeforeWait ==
    \A p \in Procs :
        /\ \A i \in Calls(p, "setAppRunnerUrl") :
              /\ trace[p][i].arg # 0
              /\ i > 1
              /\ trace[p][i - 1] = Event("CreateService", trace[p][i].arg)
        /\ \A i \in Calls(p, "CreateService") :
              (trace[p][i].arg # 0 /\ loc[p].pc # "setAppRunnerUrl") =>
                  /\ Len(trace[p]) >= i + 2
                  /\ trace[p][i + 1] = Event("setAppRunnerUrl", trace[p][i].arg)
                  /\ trace[p][i + 2] = Event("wait", trace[p][i].arg)
        /\ (loc[p].createdArn # 0 /\ loc[p].pc \in {"wait", "done"}) =>
              /\ urlSink = loc[p].createdArn
              /\ Calls(p, "setAppRunnerUrl") # {}
        /\ (\A i \in Calls(p, "CreateService") : trace[p][i].arg = 0) =>
              Calls(p, "setAppRunnerUrl") = {}

C17_Witness ==
    \E p \in Procs :
        /\ loc[p].pc = "done"
        /\ loc[p].outcome = "UnexpectedStatus"
        /\ loc[p].waitFor = "create"
        /\ loc[p].createdArn # 0
        /\ urlSink = loc[p].createdArn

\* a run whose create-service was refused has not called the sink
C17_RefusedWitness ==
    \E p \in Procs :
        /\ loc[p].pc = "done"
        /\ Calls(p, "CreateService") # {}
        /\ loc[p].createdArn = 0
        /\ Calls(p, "setAppRunnerUrl") = {}

\* the services of an identity that are not deleted
C18_Live(deployment, component) ==
    {a \in Arns : /\ svc[a].status \notin {"NONE", "DELETED"}
                  /\ TagsMatch(svc[a].tags, deployment, component)}

\* C18: the remote never holds more than one service that is not deleted and
\* is tagged with the identity of an invocation, also when two invocations
\* for that identity interleave.
C18_AtMostOneLive ==
    \A p \in Procs :
        Cardinality(C18_Live(opt[p].deployment, opt[p].component)) <= 1

\* p and q are invocations for different identities
C20_Apart(p, q) ==
    <<opt[p].region, opt[p].deployment, opt[p].component>> #
    <<opt[q].region, opt[q].deployment, opt[q].component>>

\* p has created an autoscaling revision that its create-service or
\* update-service request has yet to attach
C20_Unattached(p) ==
    /\ loc[p].newArn # 0
    /\ loc[p].pc \in {"createService", "getConfig", "updateService"}

\* C20: the autoscaling revision an invocation has created and not yet
\* attached is not deleted by a step of an invocation for another identity,
\* also when both use the same autoscaling configuration name.
C20_Independence ==
    \A p \in Procs :
        (C20_Unattached(p) /\ \A q \in Procs \ {p} : C20_Apart(p, q)) =>
            rev[loc[p].newArn].status = "active"

\* p's run has reported the service up to date, and the service it found
\* equals the desired spec in all five categories
C19_Converged(p) ==
    /\ loc[p].pc = "done"
    /\ loc[p].outcome = "UpToDate"
    /\ LET s == svc[loc[p].summaryArn]
           needs == Needs(s, opt[p], config)
       IN  /\ s.status = "RUNNING"
           /\ ~autoScalingNeedsUpdate(rev[s.asc].settings, getAutoScalingSettings(opt[p]))
           /\ ~needs.hc /\ ~needs.inst /\ ~needs.img /\ ~needs.cfg

\* C19: with invocations killed at any point, an unchanged desired spec and a
\* provider that finishes its operations, re-invocation eventually reaches a
\* run that reports the service up to date with observed equal to desired.
C19_Converges == <>(\E p \in Procs : C19_Converged(p))

\* one poll of p's waiter: a tick adds the delay it chose, one of 1, 2, 5 and
\* 10, to the clock and happens only with the clock below maxWait; the poll
\* made with the clock at maxWait or beyond ends the wait, and RUNNING
\* observed by it is the success of a reachRunning wait
C21_Step(p) ==
    LET status == svc[loc[p].waitArn].status
    IN  C15_Poll(p) =>
            /\ loc'[p].pc = "wait" =>
                  /\ loc[p].clock < loc[p].maxWait
                  /\ loc'[p].delay \in {1, 2, 5, 10}
                  /\ loc'[p].clock = loc[p].clock + loc'[p].delay
                  /\ loc'[p].polls = loc[p].polls + 1
            /\ loc[p].clock >= loc[p].maxWait => loc'[p].pc # "wait"
            /\ (status = "RUNNING" /\ ~loc[p].isDeleting) =>
                  /\ loc'[p].returned
                  /\ loc'[p].service = svc[loc[p].waitArn]
                  /\ loc'[p].outcome = "Created"

\* while p waits: the clock is below maxWait + 10, every poll so far took at
\* least a second of it, and with maxWait = 900 it does not pass 902
C21_Bound(p) ==
    loc[p].pc = "wait" =>
        /\ loc[p].clock < loc[p].maxWait + 10
        /\ loc[p].polls <= loc[p].clock
        /\ loc[p].maxWait = 900 => loc[p].clock <= 902

\* C21: for every maxWait and every sequence of describe answers the waiter
\* returns or ends the run after finitely many polls; its clock grows by the
\* chosen delay at each tick, no sleep starts with the clock at maxWait or
\* beyond, the clock at exit is below maxWait + 10 (902 at the last poll for
\* maxWait = 900), and the status seen by the last poll is honoured.
C21_WaiterTerminates ==
    /\ [](\A p \in Procs : C21_Bound(p))
    /\ [][\A p \in Procs : C21_Step(p)]_vars
    /\ \A p \in Procs : (loc[p].pc = "wait") ~> (loc[p].pc # "wait")

C21_Witness ==
    \E p \in Procs :
        /\ loc[p].pc = "wait"
        /\ loc[p].maxWait = MaxWaitTimeForAppRunnerCreate
        /\ loc[p].clock = 902
        /\ ~loc[p].isDeleting
        /\ svc[loc[p].waitArn].status = "RUNNING"

\* the revisions p's run has issued a delete for
C22_Deleted(p) ==
    {trace[p][i].arg : i \in Calls(p, "DeleteAutoScalingConfiguration")}

\* what p's run has deleted: only revisions the listing for its name reported
\* unassociated and active, none that a service which is not deleted refers
\* to, and not the revision the run itself created
C22_Only(p) ==
    /\ C22_Deleted(p) \subseteq loc[p].reported
    /\ \A r \in C22_Deleted(p) :
          /\ rev[r].name = opt[p].autoScalingConfigurationName
          /\ r # loc[p].newArn
          /\ \A a \in Arns :
                svc[a].status \notin {"NONE", "DELETED"} => svc[a].asc # r
    /\ (loc[p].pc \in {"updateService", "createService"} /\ loc[p].newArn # 0) =>
          rev[loc[p].newArn].status = "active"

\* a step changes a revision only by creating it where there was none or by
\* deleting it when it is active and unassociated; its name and settings
\* stay as created
C22_Revisions ==
    \A r \in RevIds :
        rev'[r] # rev[r] =>
            \/ rev[r].status = "none" /\ rev'[r].status = "active"
            \/ /\ rev[r].status = "active"
               /\ ~HasAssociatedService(svc, r)
               /\ rev'[r] = [rev[r] EXCEPT !.status = "inactive"]

\* new bounds give a new revision, and the request refers to it
C22_Swap(p) ==
    /\ (loc[p].pc = "createAutoScaling" /\ loc'[p].pc # "createAutoScaling"
        /\ loc'[p].pc # "done") =>
          /\ rev[loc'[p].newArn].status = "none"
          /\ rev'[loc'[p].newArn].settings = getAutoScalingSettings(opt[p])
    /\ (loc[p].pc = "updateService" /\ loc'[p].pc = "tagResource") =>
          /\ loc[p].autoScalingNeedsUpdate <=> loc[p].newArn # 0
          /\ svc'[loc[p].summaryArn].req.asc =
                 IF loc[p].autoScalingNeedsUpdate THEN {loc[p].newArn} ELSE {}
    /\ (loc[p].pc = "createService" /\ loc'[p].pc = "setAppRunnerUrl") =>
          svc'[loc'[p].createdArn].asc = loc[p].newArn

\* C22: a run issues a revision delete only for a revision the listing for
\* its name reported unassociated and active, so that neither the revision a
\* live service refers to nor the one the run created is deleted; a revision
\* is never edited in place: new bounds give a new revision, to which the
\* service request then refers.
C22_ReclaimOnlyUnused ==
    /\ [](\A p \in Procs : C22_Only(p))
    /\ [][C22_Revisions /\ \A p \in Procs : C22_Swap(p)]_vars

C22_Witness ==
    \E p \in Procs :
        /\ loc[p].pc = "updateService"
        /\ C22_Deleted(p) # {}
        /\ loc[p].newArn # 0
        /\ rev[loc[p].newArn].status = "active"
        /\ rev[loc[p].existingService.asc].status = "active"
        /\ loc[p].existingService.asc \notin C22_Deleted(p)

====
